---- MODULE Spec2Model ----
(***************************************************************************)
(* Model of devops-upm-proxy: the scraper (src/scraper) that mirrors NPM   *)
(* package metadata from Azure DevOps into MongoDB, and the proxy server   *)
(* (src/proxy) that serves registry documents out of MongoDB.              *)
(***************************************************************************)
EXTENDS Integers, Sequences, FiniteSets, TLC

VARIABLES
    world,                    \* the upstream universe of this behaviour (names, version ids, dependency lists)
    packages,                 \* Mongo collection `packages` written by the scraper (natural order)
    packages_collection,      \* Mongo collection `packages_collection` read by the proxy server
    pc,                       \* position of the scraper process
    devops_package_list,      \* download(): catalog listing of the current run
    idx,                      \* download(): 1-based position of the for loop in devops_package_list
    mongo_package_status,     \* download(): result of check_package_status_in_mongo
    package_versions,         \* download(): dict of versions or NetworkError of the last fetch
    non_serious_error_count,  \* download(): local counter of line 49
    run_result,               \* how the last run ended: "none", "running", "completed", "aborted", "crashed"
    errors_seen,              \* history: non-auth NetworkError outcomes seen in the current run
    auth_fail_idx,            \* history: idx of the package whose fetch returned DEVOPS_AUTH_FAILURE (0: none)
    fetched,                  \* history: the idx values for which a feed or registry fetch was issued this run
    feed_ids,                 \* history: the version ids in the "value" list of the last feed response
    registry_ids,             \* history: the keys of the "versions" object of the last registry response
    ops,                      \* history: the store operations done for the current package
    old_package,              \* history: the document find_one returned when the current package was classified
    rd_response,              \* proxy server: the last answer of package_route or all_packages_route
    catalog_error,            \* history: the NetworkError get_from_devops returned for the catalog listing ("none": a response)
    arguments,                \* function-level specifications: the arguments of the call under study
    result                    \* function-level specifications: the value that call returned

vars == <<world, packages, packages_collection, pc, devops_package_list, idx,
          mongo_package_status, package_versions, non_serious_error_count,
          run_result, errors_seen, auth_fail_idx, fetched, feed_ids,
          registry_ids, ops, old_package, rd_response, catalog_error, arguments, result>>

\* Python None
Null == "None"

\* no new run is started once `packages` holds this many documents more than it holds names
MaxDuplicates == 1

\* ---------------------------------------------------------------------------
\* enums.py
NOT_FOUND == "NOT_FOUND"
OUT_OF_DATE == "OUT_OF_DATE"
UP_TO_DATE == "UP_TO_DATE"

TIMEOUT == "TIMEOUT"
HTTP_ERROR == "HTTP_ERROR"
DEVOPS_AUTH_FAILURE == "DEVOPS_AUTH_FAILURE"
STATUS_CLIENT_ERROR == "STATUS_CLIENT_ERROR"
STATUS_SERVER_ERROR == "STATUS_SERVER_ERROR"
NetworkError == {TIMEOUT, HTTP_ERROR, DEVOPS_AUTH_FAILURE, STATUS_CLIENT_ERROR, STATUS_SERVER_ERROR}

RETURN == "RETURN"
CONTINUE == "CONTINUE"
PASS == "PASS"

\* ---------------------------------------------------------------------------
\* finite maps (Python dicts)
EmptyMap == [k \in {} |-> Null]

Put(m, k, v) == [x \in (DOMAIN m) \cup {k} |-> IF x = k THEN v ELSE m[x]]

\* Python `a or b` on values that are None, a string or a bool ("True"/"False")
PyOr(a, b) == IF a \in {Null, "", "False"} THEN b ELSE a

\* an optional value is a sequence of length 0 (None) or 1
None == << >>
Some(x) == <<x>>

\* ---------------------------------------------------------------------------
\* the upstream universes: bounded sets the inputs are drawn from

\* largest number of entries in the "value" list of one feed response
MaxFeed == 2

GoodDeps == <<[packageName |-> "dep", versionRange |-> "^1.0.0"]>>
\* a dependency entry without "versionRange"
NoRangeDeps == <<[packageName |-> "dep", versionRange |-> Null]>>

\* two packages with two versions each: reconciliation and replacement
DataWorld ==
    [names |-> <<"foo", "bar">>,
     versions |-> {"1.0.0", "2.0.0"},
     deps |-> {GoodDeps},
     requests |-> {"foo"}]

\* one package whose feed may lack a dependency range: records that do not deserialise
NoRangeWorld ==
    [names |-> <<"foo">>,
     versions |-> {"1.0.0", "2.0.0"},
     deps |-> {GoodDeps, NoRangeDeps},
     requests |-> {"foo"}]

\* six packages with one version each: the error budget of one run
BudgetWorld ==
    [names |-> <<"p1", "p2", "p3", "p4", "p5", "p6">>,
     versions |-> {"1.0.0"},
     deps |-> {GoodDeps},
     requests |-> {"p6"}]

\* what requests.get can do: raise, or answer with a status code
StatusCodes == {200, 203, 404, 500}
RawOutcomes ==
    {[exc |-> e, status_code |-> 0] : e \in {"Timeout", "HTTPError", "ConnectionError"}}
    \cup {[exc |-> "none", status_code |-> s] : s \in StatusCodes}

\* the entries of a feed "value" list
FeedEntries(w) ==
    {[version |-> v, description |-> d, publishDate |-> "2020-01-01", dependencies |-> ds] :
        v \in w.versions, d \in {"text"}, ds \in w.deps}

SeqsUpTo(S, n) == UNION {[1..k -> S] : k \in 0..n}

FeedLists(w) == SeqsUpTo(FeedEntries(w), MaxFeed)

\* the entries of a registry "versions" object
RegistryEntries ==
    {[dist |-> [shasum |-> "abc123", tarball |-> "https://pkgs/tarball.tgz"],
      author |-> a, displayName |-> Null, unity |-> Null, category |-> Null,
      hideInEditor |-> Null] : a \in {None}}

RegistryDocs(w) == UNION {[S -> RegistryEntries] : S \in SUBSET w.versions}

\* the catalog listings: every package of the universe, in order, with some latest version
Catalogs(w) ==
    {[i \in 1..Len(w.names) |-> [name |-> w.names[i], latest |-> latest[i]]] :
        latest \in [1..Len(w.names) -> w.versions]}

fallback_author == "Fallback Author"

\* ---------------------------------------------------------------------------
\* devops_scraping.py

\* get_from_devops with range(400, 499) at line 66
get_from_devops_499_passes(raw) ==
    IF raw.exc = "Timeout" THEN TIMEOUT
    ELSE IF raw.exc = "HTTPError" THEN HTTP_ERROR
    ELSE IF raw.exc = "ConnectionError" THEN HTTP_ERROR
    ELSE IF raw.status_code = 203 THEN DEVOPS_AUTH_FAILURE
    ELSE IF raw.status_code \in 400..498 THEN STATUS_CLIENT_ERROR
    ELSE IF raw.status_code \in 500..599 THEN STATUS_SERVER_ERROR
    ELSE "none"

\* get_from_devops: a NetworkError, or "none" when the response is returned
get_from_devops(raw) ==
    IF raw.exc = "Timeout" THEN TIMEOUT
    ELSE IF raw.exc = "HTTPError" THEN HTTP_ERROR
    ELSE IF raw.exc = "ConnectionError" THEN HTTP_ERROR
    ELSE IF raw.status_code = 203 THEN DEVOPS_AUTH_FAILURE
    ELSE IF raw.status_code \in 400..499 THEN STATUS_CLIENT_ERROR
    ELSE IF raw.status_code \in 500..599 THEN STATUS_SERVER_ERROR
    ELSE "none"

\* the loop of lines 125-131 leaving out the entries without a name or without a range
RECURSIVE DependenciesDict_skips_missing(_)
DependenciesDict_skips_missing(deps) ==
    IF deps = << >> THEN EmptyMap
    ELSE LET n == Len(deps)
             before == DependenciesDict_skips_missing(SubSeq(deps, 1, n - 1))
         IN IF deps[n].packageName = Null \/ deps[n].versionRange = Null
            THEN before
            ELSE Put(before, deps[n].packageName, deps[n].versionRange)

\* the OrderedDict built by the loop of lines 125-131
RECURSIVE DependenciesDict(_)
DependenciesDict(deps) ==
    IF deps = << >> THEN EmptyMap
    ELSE LET n == Len(deps)
         IN Put(DependenciesDict(SubSeq(deps, 1, n - 1)), deps[n].packageName, deps[n].versionRange)

\* NpmPackageVersion(version_number, description, publish_date, dependencies), lines 133-138
NewVersion(devops_version) ==
    [version_number |-> devops_version.version,
     description |-> PyOr(devops_version.description, ""),
     publish_date |-> devops_version.publishDate,
     dependencies |-> DependenciesDict(devops_version.dependencies),
     shasum |-> Null, tarball |-> Null, author |-> Null, display_name |-> Null,
     unity |-> Null, category |-> Null, hide_in_editor |-> "True"]

\* the loop of lines 120-140 over the "value" list
RECURSIVE ProcessedVersions(_)
ProcessedVersions(devops_versions) ==
    IF devops_versions = << >> THEN EmptyMap
    ELSE LET n == Len(devops_versions)
         IN Put(ProcessedVersions(SubSeq(devops_versions, 1, n - 1)),
                devops_versions[n].version, NewVersion(devops_versions[n]))

\* get_npm_versions_from_devops_feed
get_npm_versions_from_devops_feed(raw, value) ==
    LET r == get_from_devops(raw)
    IN IF r # "none" THEN [error |-> r, versions |-> EmptyMap]
       ELSE [error |-> "none", versions |-> ProcessedVersions(value)]

\* lines 181-204: one version updated from its registry entry
EnrichedVersion(package_name, ver, json_version) ==
    LET author == json_version.author
        author_name == IF author # None THEN author[1].name ELSE Null
        category == IF json_version.category = Null /\ author # None
                    THEN author_name ELSE json_version.category
    IN [ver EXCEPT
          !.shasum = json_version.dist.shasum,
          !.tarball = json_version.dist.tarball,
          !.author = IF author # None THEN author_name ELSE fallback_author,
          !.display_name = PyOr(json_version.displayName, package_name),
          !.unity = PyOr(json_version.unity, "Unknown Unity Version"),
          !.category = PyOr(category, "Unknown"),
          !.hide_in_editor = PyOr(json_version.hideInEditor, "False")]

\* the loop of lines 168-207 without the `continue` of line 179
UpdatedKeepsUnregistered(package_name, versions, devops_versions) ==
    [ver_num \in DOMAIN versions |->
        IF ver_num \in DOMAIN devops_versions
        THEN EnrichedVersion(package_name, versions[ver_num], devops_versions[ver_num])
        ELSE versions[ver_num]]

\* the loop of lines 168-207 over package_versions
UpdatedPackageVersions(package_name, versions, devops_versions) ==
    [ver_num \in {v \in DOMAIN versions : v \in DOMAIN devops_versions} |->
        EnrichedVersion(package_name, versions[ver_num], devops_versions[ver_num])]

\* get_extra_npm_info_from_devops_npm_registry
get_extra_npm_info_from_devops_npm_registry(raw, devops_versions, package_name, versions) ==
    LET r == get_from_devops(raw)
    IN IF r # "none" THEN [error |-> r, versions |-> EmptyMap]
       ELSE [error |-> "none",
             versions |-> UpdatedPackageVersions(package_name, versions, devops_versions)]

\* the threshold of line 236
ErrorThreshold == 5

\* validate_package_versions with the authentication failure handled like any other error
validate_auth_not_fatal(versions, count) ==
    IF versions.error # "none"
    THEN IF count + 1 = ErrorThreshold THEN RETURN ELSE CONTINUE
    ELSE IF Cardinality(DOMAIN versions.versions) = 0 THEN CONTINUE
    ELSE PASS

\* validate_package_versions without the length check of line 249
validate_empty_passes(versions, count) ==
    IF versions.error # "none"
    THEN IF versions.error = DEVOPS_AUTH_FAILURE THEN RETURN
         ELSE IF count + 1 = ErrorThreshold THEN RETURN
         ELSE CONTINUE
    ELSE PASS

\* validate_package_versions letting a NetworkError other than the authentication failure pass
validate_error_passes(versions, count) ==
    IF versions.error # "none"
    THEN IF versions.error = DEVOPS_AUTH_FAILURE THEN RETURN
         ELSE PASS
    ELSE IF Cardinality(DOMAIN versions.versions) = 0 THEN CONTINUE
    ELSE PASS

\* validate_package_versions; the counter is the function's own parameter
validate_package_versions(versions, count) ==
    IF versions.error # "none"
    THEN IF versions.error = DEVOPS_AUTH_FAILURE THEN RETURN
         ELSE IF count + 1 = ErrorThreshold THEN RETURN
         ELSE CONTINUE
    ELSE IF Cardinality(DOMAIN versions.versions) = 0 THEN CONTINUE
    ELSE PASS

\* ---------------------------------------------------------------------------
\* mongo_functions.py and the store

\* collection.find_one({"name": n}): the first matching document in natural order
RECURSIVE find_one(_, _)
find_one(coll, n) ==
    IF coll = << >> THEN None
    ELSE IF Head(coll).name = n THEN Some(Head(coll))
    ELSE find_one(Tail(coll), n)

\* collection.delete_one({"name": n}): removes the first matching document
RECURSIVE delete_one(_, _)
delete_one(coll, n) ==
    IF coll = << >> THEN << >>
    ELSE IF Head(coll).name = n THEN Tail(coll)
    ELSE <<Head(coll)>> \o delete_one(Tail(coll), n)

\* collection.insert_one(doc)
insert_one(coll, doc) == Append(coll, doc)

\* NpmPackageVersion field types: every field is a str (hide_in_editor a bool),
\* dependencies a dict[str, str]
VersionTypesOk(v) ==
    /\ \A f \in {"version_number", "description", "publish_date", "shasum", "tarball",
                 "author", "display_name", "unity", "category"} : v[f] # Null
    /\ v.hide_in_editor \in {"True", "False"}
    /\ \A k \in DOMAIN v.dependencies : k # Null /\ v.dependencies[k] # Null

\* dacite.from_dict(NpmPackage, doc) does not raise WrongTypeError
Deserialises(doc) ==
    /\ doc.name # Null
    /\ doc.latest_version # Null
    /\ \A k \in DOMAIN doc.versions : k # Null /\ VersionTypesOk(doc.versions[k])

\* check_package_status_in_mongo with the comparison of line 41 on the package name
check_status_compares_name(package_name, package_latest_version, coll) ==
    LET mongo_package == find_one(coll, package_name)
    IN IF mongo_package = None THEN NOT_FOUND
       ELSE IF ~Deserialises(mongo_package[1]) THEN NOT_FOUND
       ELSE IF mongo_package[1].latest_version = package_name THEN UP_TO_DATE
       ELSE OUT_OF_DATE

\* check_package_status_in_mongo going on with a record that failed to deserialise
check_status_ignores_wrong_type(package_name, package_latest_version, coll) ==
    LET mongo_package == find_one(coll, package_name)
    IN IF mongo_package = None THEN NOT_FOUND
       ELSE IF mongo_package[1].latest_version = package_latest_version THEN UP_TO_DATE
       ELSE OUT_OF_DATE

check_package_status_in_mongo(package_name, package_latest_version, coll) ==
    LET mongo_package == find_one(coll, package_name)
    IN IF mongo_package = None THEN NOT_FOUND
       ELSE IF ~Deserialises(mongo_package[1]) THEN NOT_FOUND
       ELSE IF mongo_package[1].latest_version = package_latest_version THEN UP_TO_DATE
       ELSE OUT_OF_DATE

\* NpmPackage(...) and dataclasses.asdict, lines 101-118
NpmPackage(package_name, package_latest_version, versions) ==
    [name |-> package_name, latest_version |-> package_latest_version, versions |-> versions]

\* ---------------------------------------------------------------------------
\* proxy/server.py

LICENSE == "proprietary"

\* the tokens random.choices can produce for "_rev"
RevTokens == {"rev-a", "rev-b"}

\* lines 78-97: the sub-document of one version
VersionDocument(package_name, version) ==
    [id |-> <<package_name, version.version_number>>,
     shasum |-> version.shasum,
     name |-> package_name,
     author |-> version.author,
     dependencies |-> version.dependencies,
     description |-> version.description,
     directories |-> Null,
     dist |-> [shasum |-> version.shasum, tarball |-> version.tarball],
     license |-> LICENSE,
     version |-> version.version_number,
     displayName |-> version.display_name,
     unity |-> version.unity,
     category |-> version.category,
     hideInEditor |-> version.hide_in_editor]

VersionNumbers(package) == {package.versions[k].version_number : k \in DOMAIN package.versions}

\* the last version of the loop of line 75 that carries version_number n
VersionNumbered(package, n) ==
    CHOOSE k \in DOMAIN package.versions : package.versions[k].version_number = n

\* the response document with the random token also written to "_id"
ResponseDocument_rev_in_id(package_name, package, rev) ==
    LET latest_version == package.versions[package.latest_version]
    IN [id |-> rev,
        rev |-> rev,
        name |-> package_name,
        description |-> latest_version.description,
        license |-> LICENSE,
        dist_tags |-> [latest |-> latest_version.version_number],
        versions |-> [n \in VersionNumbers(package) |->
                         VersionDocument(package_name, package.versions[VersionNumbered(package, n)])],
        time |-> [n \in VersionNumbers(package) |->
                         package.versions[VersionNumbered(package, n)].publish_date],
        displayName |-> latest_version.display_name,
        unity |-> latest_version.unity,
        category |-> latest_version.category,
        hideInEditor |-> latest_version.hide_in_editor,
        author |-> latest_version.author]

\* lines 70-117: the response document
ResponseDocument(package_name, package, rev) ==
    LET latest_version == package.versions[package.latest_version]
    IN [id |-> package_name,
        rev |-> rev,
        name |-> package_name,
        description |-> latest_version.description,
        license |-> LICENSE,
        dist_tags |-> [latest |-> latest_version.version_number],
        versions |-> [n \in VersionNumbers(package) |->
                         VersionDocument(package_name, package.versions[VersionNumbered(package, n)])],
        time |-> [n \in VersionNumbers(package) |->
                         package.versions[VersionNumbered(package, n)].publish_date],
        displayName |-> latest_version.display_name,
        unity |-> latest_version.unity,
        category |-> latest_version.category,
        hideInEditor |-> latest_version.hide_in_editor,
        author |-> latest_version.author]

\* package_route answering with some other version when latest_version is no key of versions
package_route_other_version(coll, package_name, rev) ==
    LET mongo_package == find_one(coll, package_name)
    IN IF mongo_package = None
       THEN [status |-> 404, found |-> None, body |-> None]
       ELSE IF ~Deserialises(mongo_package[1])
       THEN [status |-> 500, found |-> mongo_package, body |-> None]
       ELSE IF DOMAIN mongo_package[1].versions = {}
       THEN [status |-> 500, found |-> mongo_package, body |-> None]
       ELSE LET package ==
                   IF mongo_package[1].latest_version \in DOMAIN mongo_package[1].versions
                   THEN mongo_package[1]
                   ELSE [mongo_package[1] EXCEPT !.latest_version =
                            CHOOSE k \in DOMAIN mongo_package[1].versions : TRUE]
            IN [status |-> 200, found |-> mongo_package,
                body |-> Some(ResponseDocument(package_name, package, rev))]

\* package_route without the `is None` check of line 56
package_route_no_none_check(coll, package_name, rev) ==
    LET mongo_package == find_one(coll, package_name)
    IN IF mongo_package = None
       THEN [status |-> 500, found |-> None, body |-> None]
       ELSE IF ~Deserialises(mongo_package[1])
       THEN [status |-> 500, found |-> mongo_package, body |-> None]
       ELSE IF mongo_package[1].latest_version \notin DOMAIN mongo_package[1].versions
       THEN [status |-> 500, found |-> mongo_package, body |-> None]
       ELSE [status |-> 200, found |-> mongo_package,
             body |-> Some(ResponseDocument(package_name, mongo_package[1], rev))]

\* package_route: the status, the document found and the body of the answer
package_route(coll, package_name, rev) ==
    LET mongo_package == find_one(coll, package_name)
    IN IF mongo_package = None
       THEN [status |-> 404, found |-> None, body |-> None]
       ELSE IF ~Deserialises(mongo_package[1])
       THEN [status |-> 500, found |-> mongo_package, body |-> None]
       ELSE IF mongo_package[1].latest_version \notin DOMAIN mongo_package[1].versions
       THEN [status |-> 500, found |-> mongo_package, body |-> None]
       ELSE [status |-> 200, found |-> mongo_package,
             body |-> Some(ResponseDocument(package_name, mongo_package[1], rev))]

\* the values int(time.time()) takes at line 128
Clock == {1600000000, 1600000001}

\* lines 147-160: the entry of one package in the document of all packages
AllPackagesEntry(package) ==
    LET latest_version == package.versions[package.latest_version]
    IN [name |-> package.name,
        description |-> latest_version.description,
        dist_tags |-> [latest |-> latest_version.version_number],
        license |-> LICENSE,
        time |-> latest_version.publish_date,
        versions |-> [n \in {latest_version.version_number} |-> "latest"],
        displayName |-> latest_version.display_name,
        unity |-> latest_version.unity,
        category |-> latest_version.category,
        hideInEditor |-> latest_version.hide_in_editor]

\* the last document of the loop of line 132 that is named n
LastNamed(coll, n) ==
    CHOOSE i \in 1..Len(coll) : coll[i].name = n /\ \A j \in (i + 1)..Len(coll) : coll[j].name # n

\* all_packages_route: the status and the body of the answer; a document that does not
\* deserialise is answered with 500 (line 140), a latest_version that is no key of
\* versions raises KeyError at line 145
all_packages_route(coll, now) ==
    IF \E i \in 1..Len(coll) :
          \/ ~Deserialises(coll[i])
          \/ coll[i].latest_version \notin DOMAIN coll[i].versions
    THEN [status |-> 500, found |-> None, body |-> None]
    ELSE [status |-> 200, found |-> None,
          body |-> Some([updated |-> now,
                         packages |-> [n \in {coll[i].name : i \in 1..Len(coll)} |->
                                          AllPackagesEntry(coll[LastNamed(coll, n)])]])]

\* ---------------------------------------------------------------------------
\* the processes

NoVersions == [error |-> "none", versions |-> EmptyMap]

NoResponse == [name |-> Null, status |-> 0, found |-> None, body |-> None, replacing |-> "no"]

Worlds == {DataWorld, NoRangeWorld, BudgetWorld}

Init ==
    /\ world \in Worlds
    /\ packages = << >>
    /\ packages_collection = << >>
    /\ pc = "start"
    /\ devops_package_list = << >>
    /\ idx = 0
    /\ mongo_package_status = NOT_FOUND
    /\ package_versions = NoVersions
    /\ non_serious_error_count = 0
    /\ run_result = "none"
    /\ errors_seen = 0
    /\ auth_fail_idx = 0
    /\ fetched = {}
    /\ feed_ids = None
    /\ registry_ids = None
    /\ ops = << >>
    /\ old_package = None
    /\ rd_response = NoResponse
    /\ catalog_error = "none"
    /\ arguments = None
    /\ result = None

scraper_history == <<errors_seen, auth_fail_idx, fetched, feed_ids, registry_ids, ops, old_package,
                     catalog_error>>
fetch_history == <<errors_seen, auth_fail_idx, fetched, feed_ids, registry_ids, old_package,
                   catalog_error>>
download_locals == <<devops_package_list, idx, mongo_package_status, package_versions,
                     non_serious_error_count>>

Names(coll) == {coll[i].name : i \in 1..Len(coll)}
Duplicates(coll) == Len(coll) - Cardinality(Names(coll))

\* main(), lines 124-165: the feed URL lookup, the optional wipe, the scheduler
Main ==
    /\ pc = "start"
    /\ \E raw \in RawOutcomes, wipe_db \in BOOLEAN :
          IF get_from_devops(raw) # "none"
          THEN /\ pc' = "exited"
               /\ UNCHANGED packages
          ELSE /\ pc' = "idle"
               /\ packages' = IF wipe_db THEN << >> ELSE packages
    /\ UNCHANGED <<arguments, result, world, packages_collection, download_locals, run_result,
                   scraper_history, rd_response>>

\* download(), lines 39-51: the catalog listing and the start of the loop
StartRun(listings) ==
    /\ pc = "idle"
    /\ Duplicates(packages) < MaxDuplicates
    /\ \E raw \in RawOutcomes :
       /\ catalog_error' = get_from_devops(raw)
       /\ IF get_from_devops(raw) # "none"
          THEN \* lines 43-46: the error is logged, then .json() is called on the
               \* NetworkError and raises AttributeError: the job ends
               /\ pc' = "idle"
               /\ run_result' = "crashed"
               /\ devops_package_list' = << >>
               /\ idx' = 0
          ELSE \E listing \in listings :
               /\ devops_package_list' = listing
               /\ idx' = 1
               /\ pc' = "classify"
               /\ run_result' = "running"
    /\ non_serious_error_count' = 0
    /\ mongo_package_status' = NOT_FOUND
    /\ package_versions' = NoVersions
    /\ errors_seen' = 0
    /\ auth_fail_idx' = 0
    /\ fetched' = {}
    /\ feed_ids' = None
    /\ registry_ids' = None
    /\ ops' = << >>
    /\ old_package' = None
    /\ UNCHANGED <<arguments, world, packages, packages_collection, rd_response>>

\* a run over any listing of the universe
RunStart ==
    /\ StartRun(Catalogs(world))
    /\ UNCHANGED result

\* `continue` that starts the same package again
NextPackage_same_package ==
    /\ idx' = idx
    /\ pc' = "classify"
    /\ UNCHANGED run_result

\* `continue`, or the end of the for loop and line 121
NextPackage ==
    IF idx < Len(devops_package_list)
    THEN /\ idx' = idx + 1
         /\ pc' = "classify"
         /\ UNCHANGED run_result
    ELSE /\ idx' = idx
         /\ pc' = "idle"
         /\ run_result' = "completed"

\* `return` out of download()
Return ==
    /\ idx' = idx
    /\ pc' = "idle"
    /\ run_result' = "aborted"

\* lines 53-65; package_versions of the previous iteration is dead until line 68
Classify ==
    /\ pc = "classify"
    /\ LET package_response == devops_package_list[idx]
           status == check_package_status_in_mongo(package_response.name,
                                                   package_response.latest, packages)
       IN /\ mongo_package_status' = status
          /\ IF status = UP_TO_DATE
             THEN NextPackage
             ELSE /\ pc' = "feed"
                  /\ UNCHANGED <<idx, run_result>>
    /\ package_versions' = NoVersions
    /\ feed_ids' = None
    /\ registry_ids' = None
    /\ ops' = << >>
    /\ old_package' = find_one(packages, devops_package_list[idx].name)
    /\ UNCHANGED <<arguments, result, world, packages, packages_collection, devops_package_list,
                   non_serious_error_count, errors_seen, auth_fail_idx, fetched, rd_response,
                   catalog_error>>

\* what both fetch steps do with the outcome: lines 72-82 and 89-99
Validate(versions, pass_pc) ==
    /\ package_versions' = versions
    /\ fetched' = fetched \cup {idx}
    /\ errors_seen' = IF versions.error \in NetworkError \ {DEVOPS_AUTH_FAILURE}
                      THEN errors_seen + 1 ELSE errors_seen
    /\ auth_fail_idx' = IF versions.error = DEVOPS_AUTH_FAILURE THEN idx ELSE auth_fail_idx
    /\ LET status == validate_package_versions(versions, non_serious_error_count)
       IN CASE status = RETURN -> Return
            [] status = CONTINUE -> NextPackage
            [] status = PASS -> /\ pc' = pass_pc
                                /\ UNCHANGED <<idx, run_result>>

\* lines 67-82
FetchFeed(values) ==
    /\ pc = "feed"
    /\ \E raw \in RawOutcomes :
       \E value \in IF get_from_devops(raw) = "none" THEN values ELSE {<< >>} :
          /\ Validate(get_npm_versions_from_devops_feed(raw, value), "registry")
          /\ feed_ids' = IF get_from_devops(raw) = "none"
                          THEN Some({value[i].version : i \in 1..Len(value)}) ELSE None
    /\ UNCHANGED <<arguments, result, world, packages, packages_collection, devops_package_list,
                   mongo_package_status, non_serious_error_count, registry_ids,
                   ops, old_package, rd_response, catalog_error>>

\* the feed answers with any "value" list of the universe
FeedStep ==
    /\ pc = "feed"
    /\ FetchFeed(FeedLists(world))

\* lines 84-99, and the branch of line 109
FetchRegistry(documents) ==
    /\ pc = "registry"
    /\ \E raw \in RawOutcomes :
       \E devops_versions \in IF get_from_devops(raw) = "none"
                              THEN documents ELSE {EmptyMap} :
          /\ Validate(get_extra_npm_info_from_devops_npm_registry(
                          raw, devops_versions, devops_package_list[idx].name,
                          package_versions.versions),
                      IF mongo_package_status = OUT_OF_DATE THEN "delete" ELSE "insert")
          /\ registry_ids' = IF get_from_devops(raw) = "none"
                                  THEN Some(DOMAIN devops_versions) ELSE None
    /\ UNCHANGED <<arguments, result, world, packages, packages_collection, devops_package_list,
                   mongo_package_status, non_serious_error_count, feed_ids,
                   ops, old_package, rd_response, catalog_error>>

\* the registry answers with any "versions" object of the universe
RegistryStep ==
    /\ pc = "registry"
    /\ FetchRegistry(RegistryDocs(world))

\* lines 109-113
DeleteOld ==
    /\ pc = "delete"
    /\ packages' = delete_one(packages, devops_package_list[idx].name)
    /\ pc' = "insert"
    /\ ops' = Append(ops, "delete")
    /\ UNCHANGED <<arguments, result, world, packages_collection, download_locals, run_result,
                   fetch_history, rd_response>>

new_package ==
    NpmPackage(devops_package_list[idx].name, devops_package_list[idx].latest,
               package_versions.versions)

\* lines 115-119
InsertNew ==
    /\ pc = "insert"
    /\ packages' = insert_one(packages, new_package)
    /\ NextPackage
    /\ ops' = Append(ops, "insert")
    /\ UNCHANGED <<arguments, world, packages_collection, devops_package_list,
                   mongo_package_status, package_versions, non_serious_error_count,
                   fetch_history, rd_response>>

\* lines 115-119 in a run of the scheduler
Upload ==
    /\ InsertNew
    /\ UNCHANGED result

\* where the scraper stands in a replace of package n: before the delete, between the
\* delete and the insert, or not in one
Replacing(n) ==
    IF /\ pc \in {"delete", "insert"}
       /\ mongo_package_status = OUT_OF_DATE
       /\ devops_package_list[idx].name = n
    THEN pc ELSE "no"

\* the proxy server answers GET /<package_name>
PackageRoute ==
    /\ \E n \in world.requests, rev \in RevTokens :
          rd_response' = [name |-> n, replacing |-> Replacing(n)]
                           @@ package_route(packages_collection, n, rev)
    /\ UNCHANGED <<arguments, result, world, packages, packages_collection, pc, download_locals, run_result,
                   scraper_history>>

\* the proxy server answers GET /-/all
AllPackagesRoute ==
    /\ \E now \in Clock :
          rd_response' = [name |-> "-/all", replacing |-> "no"]
                           @@ all_packages_route(packages_collection, now)
    /\ UNCHANGED <<arguments, result, world, packages, packages_collection, pc, download_locals,
                   run_result, scraper_history>>

Next ==
    \/ Main
    \/ RunStart
    \/ Classify
    \/ FeedStep
    \/ RegistryStep
    \/ DeleteOld
    \/ Upload
    \/ PackageRoute
    \/ AllPackagesRoute

Spec == Init /\ [][Next]_vars

\* ---------------------------------------------------------------------------
\* the proxy server over the contents its collection can have

\* largest number of documents in packages_collection
MaxStored == 2

ServerWorld ==
    [names |-> <<"foo", "bar">>,
     versions |-> {"1.0.0", "2.0.0"},
     deps |-> {GoodDeps, NoRangeDeps},
     requests |-> {"foo", "bar"}]

\* the documents download() builds at lines 101-118 out of a feed and a registry response
StoredPackages(w) ==
    {NpmPackage(w.names[i], latest,
                UpdatedPackageVersions(w.names[i], ProcessedVersions(value), devops_versions)) :
        i \in 1..Len(w.names), latest \in w.versions,
        value \in {v \in FeedLists(w) : v # << >>},
        devops_versions \in {d \in RegistryDocs(w) : DOMAIN d = w.versions}}

ServerInit ==
    /\ world = ServerWorld
    /\ packages_collection \in SeqsUpTo(StoredPackages(world), MaxStored)
    /\ packages = << >>
    /\ pc = "start"
    /\ devops_package_list = << >>
    /\ idx = 0
    /\ mongo_package_status = NOT_FOUND
    /\ package_versions = NoVersions
    /\ non_serious_error_count = 0
    /\ run_result = "none"
    /\ errors_seen = 0
    /\ auth_fail_idx = 0
    /\ fetched = {}
    /\ feed_ids = None
    /\ registry_ids = None
    /\ ops = << >>
    /\ old_package = None
    /\ rd_response = NoResponse
    /\ catalog_error = "none"
    /\ arguments = None
    /\ result = None

ServerNext ==
    \/ PackageRoute
    \/ AllPackagesRoute

ServerSpec == ServerInit /\ [][ServerNext]_vars

\* ---------------------------------------------------------------------------
\* get_from_devops over every status code and every exception it catches

\* the scraper and the proxy server as constructed, nothing stored
AtStart ==
    /\ world = DataWorld
    /\ packages = << >>
    /\ packages_collection = << >>
    /\ pc = "start"
    /\ devops_package_list = << >>
    /\ idx = 0
    /\ mongo_package_status = NOT_FOUND
    /\ package_versions = NoVersions
    /\ non_serious_error_count = 0
    /\ run_result = "none"
    /\ errors_seen = 0
    /\ auth_fail_idx = 0
    /\ fetched = {}
    /\ feed_ids = None
    /\ registry_ids = None
    /\ ops = << >>
    /\ old_package = None
    /\ rd_response = NoResponse
    /\ catalog_error = "none"

program == <<world, packages, packages_collection, pc, download_locals, run_result,
             scraper_history, rd_response>>

\* the status codes a response can carry
AllStatusCodes == 100..599

AllRawOutcomes ==
    {[exc |-> e, status_code |-> 0] : e \in {"Timeout", "HTTPError", "ConnectionError"}}
    \cup {[exc |-> "none", status_code |-> s] : s \in AllStatusCodes}

\* lines 44-47: the call makes one requests.get and takes what it does; what a further
\* request would do is never asked for
GetFromDevopsCall(outcomes) ==
    [value |-> get_from_devops(outcomes[1]), requests |-> 1]

\* what the first request does, and what a second one would do
ClientInit ==
    /\ AtStart
    /\ arguments \in {Some(<<first, second>>) : first \in AllRawOutcomes, second \in RawOutcomes}
    /\ result = None

ClientCall ==
    /\ result = None
    /\ result' = Some(GetFromDevopsCall(arguments[1]))
    /\ UNCHANGED <<arguments, program>>

ClientSpec == ClientInit /\ [][ClientCall]_vars


\* ---------------------------------------------------------------------------
\* the scraper alone, with every statement of download() executed once control reaches
\* it: the statements are sequential and every request carries a timeout
\* (devops_scraping.py:47); the proxy server writes none of the scraper's variables

ScraperNext ==
    \/ Main
    \/ RunStart
    \/ Classify
    \/ FeedStep
    \/ RegistryStep
    \/ DeleteOld
    \/ Upload

FairSpec ==
    /\ Init
    /\ [][ScraperNext]_vars
    /\ WF_vars(Classify)
    /\ WF_vars(FeedStep)
    /\ WF_vars(RegistryStep)
    /\ WF_vars(DeleteOld)
    /\ WF_vars(Upload)

\* ---------------------------------------------------------------------------

\* get_extra_npm_info_from_devops_npm_registry over the registry entries of one version

\* the registry entries: "author" absent, with a name or without one; the display fields
\* absent, empty or set
AllRegistryEntries ==
    {[dist |-> [shasum |-> "abc123", tarball |-> "https://pkgs/tarball.tgz"],
      author |-> a, displayName |-> d, unity |-> u, category |-> c, hideInEditor |-> h] :
        a \in {None, Some([name |-> "Alice"]), Some([name |-> Null])},
        d \in {Null, "", "Display"},
        u \in {Null, "2021.3"},
        c \in {Null, "", "Tools"},
        h \in {Null, "True", "False"}}

\* the package, its feed versions and the registry's "versions" object
EnrichInit ==
    /\ AtStart
    /\ arguments \in
          {Some([package_name |-> "foo",
                 package_versions |-> ProcessedVersions(value),
                 devops_versions |-> [v \in ids |-> json_version]]) :
              value \in {f \in FeedLists(DataWorld) : f # << >>},
              ids \in (SUBSET DataWorld.versions) \ {{}},
              json_version \in AllRegistryEntries}
    /\ result = None

EnrichCall ==
    /\ result = None
    /\ \E raw \in RawOutcomes :
          result' = Some(get_extra_npm_info_from_devops_npm_registry(
                            raw, arguments[1].devops_versions, arguments[1].package_name,
                            arguments[1].package_versions))
    /\ UNCHANGED <<arguments, program>>

EnrichSpec == EnrichInit /\ [][EnrichCall]_vars

\* ---------------------------------------------------------------------------

\* get_npm_versions_from_devops_feed over feed entries with any dependency list

\* largest number of entries in the "dependencies" list of one feed entry
MaxDeps == 2

\* dependency entries: "packageName" and "versionRange" present or absent
DependencyEntries ==
    {[packageName |-> n, versionRange |-> r] :
        n \in {Null, "dep"}, r \in {Null, "^1.0.0", "^2.0.0"}}

AllFeedEntries ==
    {[version |-> v, description |-> "text", publishDate |-> "2020-01-01",
      dependencies |-> ds] :
        v \in DataWorld.versions, ds \in SeqsUpTo(DependencyEntries, MaxDeps)}

\* the "value" list of a feed response: every version once
MergeInit ==
    /\ AtStart
    /\ arguments \in {Some(value) : value \in
          {f \in SeqsUpTo(AllFeedEntries, Cardinality(DataWorld.versions)) :
              \A i, j \in 1..Len(f) : f[i].version = f[j].version => i = j}}
    /\ result = None

MergeCall ==
    /\ result = None
    /\ \E raw \in RawOutcomes :
          result' = Some(get_npm_versions_from_devops_feed(raw, arguments[1]))
    /\ UNCHANGED <<arguments, program>>

MergeSpec == MergeInit /\ [][MergeCall]_vars

\* ---------------------------------------------------------------------------

\* the scraper alone over an upstream that answers every run with the same data

\* the stores the runs start from: empty, or one document download() has built
RerunStores(w) == {<< >>} \cup {<<package>> : package \in StoredPackages(w)}

\* `arguments` holds the catalog listing and, per package, the feed's "value" list and
\* the registry's "versions" object; `result` holds the names the previous run inserted,
\* when it completed, and the names this run has inserted so far
RerunInit ==
    /\ world = NoRangeWorld
    /\ arguments \in
          {Some([listing |-> listing, feed |-> feed, registry |-> registry]) :
              listing \in Catalogs(world),
              feed \in [{world.names[i] : i \in 1..Len(world.names)} -> FeedLists(world)],
              registry \in [{world.names[i] : i \in 1..Len(world.names)} -> RegistryDocs(world)]}
    /\ result = Some([previous |-> {}, current |-> {}])
    /\ packages \in RerunStores(world)
    /\ packages_collection = << >>
    /\ pc = "start"
    /\ devops_package_list = << >>
    /\ idx = 0
    /\ mongo_package_status = NOT_FOUND
    /\ package_versions = NoVersions
    /\ non_serious_error_count = 0
    /\ run_result = "none"
    /\ errors_seen = 0
    /\ auth_fail_idx = 0
    /\ fetched = {}
    /\ feed_ids = None
    /\ registry_ids = None
    /\ ops = << >>
    /\ old_package = None
    /\ rd_response = NoResponse
    /\ catalog_error = "none"

RerunStart ==
    /\ StartRun({arguments[1].listing})
    /\ result' = Some([previous |-> IF run_result = "completed"
                                    THEN result[1].current ELSE {},
                       current |-> {}])

RerunFeed ==
    /\ pc = "feed"
    /\ FetchFeed({arguments[1].feed[devops_package_list[idx].name]})

RerunRegistry ==
    /\ pc = "registry"
    /\ FetchRegistry({arguments[1].registry[devops_package_list[idx].name]})

RerunUpload ==
    /\ InsertNew
    /\ result' = Some([result[1] EXCEPT
                          !.current = @ \cup {devops_package_list[idx].name}])

RerunNext ==
    \/ Main
    \/ RerunStart
    \/ Classify
    \/ RerunFeed
    \/ RerunRegistry
    \/ DeleteOld
    \/ RerunUpload

RerunSpec == RerunInit /\ [][RerunNext]_vars

\* ---------------------------------------------------------------------------

\* the properties

package_name == devops_package_list[idx].name
package_latest_version == devops_package_list[idx].latest

\* the scraper, not the proxy server, takes the step
ScraperStep == <<pc, idx>>' # <<pc, idx>>

\* the run goes on with the next package of the listing, or ends normally after the last one
ContinuesWithNext ==
    IF idx < Len(devops_package_list)
    THEN idx' = idx + 1 /\ pc' = "classify" /\ run_result' = "running"
    ELSE pc' = "idle" /\ run_result' = "completed"

\* C1: each of the first four non-auth NetworkError outcomes of a run skips only the
\* current package; the fifth one aborts the run, so no run sees more than five and a
\* run with five has ended aborted at the package of the fifth.
C1_FifthErrorAborts ==
    /\ errors_seen <= ErrorThreshold
    /\ errors_seen = ErrorThreshold => pc = "idle" /\ run_result = "aborted"
    /\ run_result = "aborted" /\ auth_fail_idx = 0 => errors_seen = ErrorThreshold

\* C2: at every point of a run the counter held by download() equals the number of
\* non-auth NetworkError outcomes seen so far in that run.
C2_CounterCountsErrors ==
    run_result = "running" => non_serious_error_count = errors_seen

\* C3: once a feed or registry fetch has returned DEVOPS_AUTH_FAILURE the run is over,
\* whatever the number of errors before it: the loop stands at the failing package, no
\* later package was fetched, and nothing was deleted or inserted for the failing package.
C3_AuthFailureAborts ==
    auth_fail_idx # 0 =>
        /\ pc = "idle"
        /\ run_result = "aborted"
        /\ idx = auth_fail_idx
        /\ fetched \subseteq 1..auth_fail_idx
        /\ ops = << >>

C3_Witness ==
    /\ auth_fail_idx # 0
    /\ auth_fail_idx < Len(devops_package_list)
    /\ errors_seen > 0

\* C4: every record in `packages` has its latest_version among the keys of its versions.
C4_LatestInVersions ==
    \A i \in 1..Len(packages) : packages[i].latest_version \in DOMAIN packages[i].versions

\* C6: the version ids that come out of the feed step are the ids of the feed list, and
\* the ids that come out of the registry step are exactly the ids present in both the
\* feed list and the registry document.
C6_ReconciledIds ==
    /\ feed_ids # None /\ registry_ids = None /\ package_versions.error = "none" =>
          DOMAIN package_versions.versions = feed_ids[1]
    /\ registry_ids # None =>
          /\ feed_ids # None
          /\ DOMAIN package_versions.versions = feed_ids[1] \cap registry_ids[1]

C6_Witness ==
    /\ registry_ids # None
    /\ feed_ids # None
    /\ feed_ids[1] \ registry_ids[1] # {}
    /\ registry_ids[1] \ feed_ids[1] # {}
    /\ DOMAIN package_versions.versions = {}

\* the stored document of the current package carries the catalog's latest version
StoredLatestEquals ==
    LET mongo_package == find_one(packages, package_name)
    IN mongo_package # None /\ mongo_package[1].latest_version = package_latest_version

\* the current package is left as up to date: no fetch, no store operation
SkippedUpToDate ==
    /\ mongo_package_status' = UP_TO_DATE
    /\ ContinuesWithNext
    /\ idx \notin fetched
    /\ fetched' = fetched
    /\ packages' = packages
    /\ ops' = << >>

\* inside a run the loop only moves forward, only the current package is fetched, and
\* the store changes only at the delete and at the insert
OnlyCurrentPackage ==
    pc \in {"classify", "feed", "registry", "delete", "insert"} =>
        /\ idx' >= idx
        /\ fetched' \subseteq fetched \cup {idx}
        /\ packages' # packages => pc \in {"delete", "insert"}

\* C5 as stated: a package whose stored latest_version equals the catalog's latest
\* version is classified up to date before any fetch, and is neither fetched nor written.
C5_StoredLatestEqualSkips ==
    [][/\ pc = "classify" /\ ScraperStep /\ StoredLatestEquals => SkippedUpToDate
       /\ OnlyCurrentPackage]_vars

\* C5 amended: a package whose stored record deserialises and has a latest_version equal
\* to the catalog's latest version is classified up to date before any fetch, and is
\* neither fetched nor written in this run.
C5_UpToDateSkips ==
    [][/\ /\ pc = "classify"
          /\ ScraperStep
          /\ StoredLatestEquals
          /\ Deserialises(find_one(packages, package_name)[1])
          => SkippedUpToDate
       /\ OnlyCurrentPackage]_vars

C5_Witness ==
    /\ pc = "classify"
    /\ run_result = "running"
    /\ mongo_package_status = UP_TO_DATE
    /\ idx > 1
    /\ (idx - 1) \notin fetched
    /\ devops_package_list[idx - 1].name \in Names(packages)

\* C7: after both fetches passed, a stale package is deleted and then inserted, a missing
\* one is inserted without a delete, and after the insert the lookup by name returns the
\* record made of the catalog's latest version and the reconciled versions.
C7_ReplaceOrInsert ==
    [][/\ pc = "registry" /\ pc' \in {"delete", "insert"} =>
             /\ mongo_package_status \in {OUT_OF_DATE, NOT_FOUND}
             /\ pc' = "delete" <=> mongo_package_status = OUT_OF_DATE
       /\ pc = "delete" /\ ScraperStep =>
             /\ pc' = "insert"
             /\ ops' = <<"delete">>
             /\ package_name \notin Names(packages')
       /\ pc = "insert" /\ ScraperStep =>
             /\ ops' = IF mongo_package_status = OUT_OF_DATE
                       THEN <<"delete", "insert">> ELSE <<"insert">>
             /\ find_one(packages', package_name) =
                   Some([name |-> package_name,
                         latest_version |-> package_latest_version,
                         versions |-> package_versions.versions])]_vars

\* C8: a feed step or a registry step that yields zero versions skips the package:
\* the store is untouched, no error is counted, the run goes on with the next package.
C8_EmptySkips ==
    [][/\ pc \in {"feed", "registry"}
       /\ ScraperStep
       /\ package_versions'.error = "none"
       /\ DOMAIN package_versions'.versions = {}
       => /\ ContinuesWithNext
          /\ packages' = packages
          /\ ops' = << >>
          /\ errors_seen' = errors_seen
          /\ non_serious_error_count' = non_serious_error_count]_vars

C8_Witness ==
    /\ pc = "classify"
    /\ run_result = "running"
    /\ registry_ids # None
    /\ feed_ids # None
    /\ feed_ids[1] # {}
    /\ package_versions.error = "none"
    /\ DOMAIN package_versions.versions = {}

\* the position of the first document named n
FirstNamed(coll, n) ==
    CHOOSE i \in 1..Len(coll) : coll[i].name = n /\ \A j \in 1..(i - 1) : coll[j].name # n

\* C9: the classification is NOT_FOUND when no document of that name is stored or the
\* stored one does not deserialise, UP_TO_DATE exactly when the stored latest_version
\* equals the catalog's, OUT_OF_DATE otherwise; it always answers and leaves the store alone.
C9_Classification ==
    [][pc = "classify" /\ ScraperStep =>
          /\ packages' = packages
          /\ mongo_package_status' \in {NOT_FOUND, UP_TO_DATE, OUT_OF_DATE}
          /\ mongo_package_status' = NOT_FOUND <=>
                \/ package_name \notin Names(packages)
                \/ ~Deserialises(packages[FirstNamed(packages, package_name)])
          /\ mongo_package_status' = UP_TO_DATE <=>
                /\ package_name \in Names(packages)
                /\ Deserialises(packages[FirstNamed(packages, package_name)])
                /\ packages[FirstNamed(packages, package_name)].latest_version
                      = package_latest_version]_vars

C9_Witness ==
    /\ pc = "feed"
    /\ mongo_package_status = NOT_FOUND
    /\ package_name \in Names(packages)

\* C10: GET /<package_name> answered while the scraper replaces that package finds no
\* document, the whole old one or the whole new one, and answers 404 when it finds none
\* and 200 otherwise, never with a server fault.
C10_ReadDuringReplace ==
    [][rd_response' # rd_response /\ rd_response'.replacing # "no" =>
          /\ rd_response'.found \in {None, old_package, Some(new_package)}
          /\ rd_response'.status \in {200, 404}
          /\ rd_response'.status = 404 <=> rd_response'.found = None]_vars

C10_Witness ==
    /\ rd_response.replacing = "insert"
    /\ rd_response.status = 404
    /\ pc = "insert"

\* the answer in rd_response is one of package_route
PackageAnswer == rd_response.name \notin {Null, "-/all"}

\* the document GET /<name> works on: the first one of that name
Requested == packages_collection[FirstNamed(packages_collection, rd_response.name)]

\* C11: GET /<package_name> answers 404 when no document of that name is stored, and 500
\* without a body when the stored document's latest_version is no key of its versions:
\* no other version is substituted and the status is never 2xx.
C11_MissingOrBrokenLatest ==
    PackageAnswer =>
        /\ rd_response.name \notin Names(packages_collection) => rd_response.status = 404
        /\ /\ rd_response.name \in Names(packages_collection)
           /\ Requested.latest_version \notin DOMAIN Requested.versions
           => /\ rd_response.status = 500
              /\ rd_response.body = None

C11_Witness ==
    /\ PackageAnswer
    /\ rd_response.name \in Names(packages_collection)
    /\ Deserialises(Requested)
    /\ Requested.versions # EmptyMap
    /\ Requested.latest_version \notin DOMAIN Requested.versions
    /\ rd_response.status = 500

C13_CatalogFailureHandled ==
    catalog_error # "none" =>
        /\ pc = "idle"
        /\ idx = 0
        /\ fetched = {}
        /\ ops = << >>
        /\ run_result # "crashed"

\* a response document with its "_rev" blanked
WithoutRev(document) == [document EXCEPT !.rev = Null]

\* C14: two answers of GET /<package_name> for the same stored package are the same
\* document in every field but "_rev".
C14_SameButRev ==
    [][/\ PackageAnswer
       /\ rd_response'.name = rd_response.name
       /\ rd_response.status = 200
       /\ rd_response'.status = 200
       => WithoutRev(rd_response'.body[1]) = WithoutRev(rd_response.body[1])]_vars

C14_Witness ==
    /\ PackageAnswer
    /\ rd_response.status = 200
    /\ rd_response.body[1].rev = "rev-b"
    /\ Cardinality(DOMAIN rd_response.body[1].versions) = 2

\* the proxy server answers GET /-/all in this step
AllPackagesStep == rd_response' # rd_response /\ rd_response'.name = "-/all"

\* C15: GET /-/all answers with a document whose keys are "_updated" and the name of
\* every package the scraper has stored, each entry with the versions map
\* {latest version id: "latest"}.
C15_AllPackagesKeys ==
    [][AllPackagesStep =>
          /\ rd_response'.status = 200
          /\ DOMAIN rd_response'.body[1].packages = Names(packages)
          /\ \A n \in Names(packages) : \E i \in 1..Len(packages) :
                /\ packages[i].name = n
                /\ rd_response'.body[1].packages[n].versions =
                      [v \in {packages[i].latest_version} |-> "latest"]]_vars

\* the proxy server answers GET /<package_name> in this step
PackageStep == rd_response' # rd_response /\ rd_response'.name \notin {Null, "-/all"}

\* the run has ended after storing its last package, whose catalog latest version is in
\* the feed and in the registry
LastPackageStored ==
    /\ pc = "idle"
    /\ run_result = "completed"
    /\ ops # << >>
    /\ ops[Len(ops)] = "insert"
    /\ package_latest_version \in feed_ids[1] \cap registry_ids[1]

\* C16: after a run that stored a package whose catalog latest version is in both
\* sources, GET /<name> answers with a document whose dist-tags.latest is that version,
\* whose versions and time keys are the reconciled version ids, and whose versions carry
\* the registry's shasum and tarball and the feed's dependencies.
C16_EndToEnd ==
    [][PackageStep /\ LastPackageStored /\ rd_response'.name = package_name =>
          /\ rd_response'.status = 200
          /\ LET document == rd_response'.body[1]
                 reconciled == feed_ids[1] \cap registry_ids[1]
             IN /\ document.dist_tags.latest = package_latest_version
                /\ DOMAIN document.versions = reconciled
                /\ DOMAIN document.time = reconciled
                /\ \A v \in reconciled :
                      /\ document.versions[v].dist.shasum = package_versions.versions[v].shasum
                      /\ document.versions[v].dist.tarball = package_versions.versions[v].tarball
                      /\ document.versions[v].dependencies =
                            package_versions.versions[v].dependencies]_vars

\* the order of the statements download() executes for one package
PcRank(p) ==
    CASE p = "classify" -> 1
      [] p = "feed" -> 2
      [] p = "registry" -> 3
      [] p = "delete" -> 4
      [] p = "insert" -> 5
      [] OTHER -> 0

\* inside a run a step goes on with the same package, moves to the next one of the
\* listing, or ends the run: after the last package, or by `return`
ForwardOnly ==
    PcRank(pc) > 0 /\ ScraperStep =>
        \/ /\ idx' = idx
           /\ PcRank(pc') > PcRank(pc)
        \/ /\ idx' = idx + 1
           /\ idx' <= Len(devops_package_list)
           /\ pc' = "classify"
        \/ /\ idx' = idx
           /\ pc' = "idle"
           /\ \/ run_result' = "completed" /\ idx = Len(devops_package_list)
              \/ run_result' = "aborted"

C18_EnrichDefaults ==
    result # None =>
        \A v \in DOMAIN result[1].versions :
            LET json_version == arguments[1].devops_versions[v]
                version == result[1].versions[v]
            IN /\ version.author = IF json_version.author # None
                                   THEN json_version.author[1].name ELSE fallback_author
               /\ json_version.displayName = Null =>
                     version.display_name = arguments[1].package_name
               /\ json_version.unity = Null => version.unity = "Unknown Unity Version"
               /\ json_version.category = Null =>
                     version.category = IF json_version.author # None
                                        THEN json_version.author[1].name ELSE "Unknown"
               /\ json_version.hideInEditor = Null => version.hide_in_editor = "False"
               /\ version.author # Null
               /\ version.display_name # Null
               /\ version.unity # Null
               /\ version.category # Null

\* the feed was answered and merged
Merged == result # None /\ result[1].error = "none"

\* the names in a "dependencies" list
DependencyNames(ds) == {ds[i].packageName : i \in 1..Len(ds)}

\* the last entry of a "dependencies" list with name n
LastDependency(ds, n) ==
    CHOOSE i \in 1..Len(ds) :
        ds[i].packageName = n /\ \A j \in (i + 1)..Len(ds) : ds[j].packageName # n

\* C19 as stated: the dependencies of every merged version hold one name -> range entry
\* per dependency entry of the feed version, entries without name or range included:
\* none is lost or overwritten.
C19_EveryEntryKept ==
    Merged =>
        \A k \in 1..Len(arguments[1]) :
            LET ds == arguments[1][k].dependencies
                dependencies == result[1].versions[arguments[1][k].version].dependencies
            IN /\ Cardinality(DOMAIN dependencies) = Len(ds)
               /\ \A i \in 1..Len(ds) :
                     /\ ds[i].packageName \in DOMAIN dependencies
                     /\ dependencies[ds[i].packageName] = ds[i].versionRange

\* C19 amended: the dependencies of every merged version hold one entry per distinct name
\* of the feed version's dependency entries (a missing name is the name None), with the
\* range of the last entry of that name (None when it has none).
C19_LastEntryPerName ==
    Merged =>
        \A k \in 1..Len(arguments[1]) :
            LET ds == arguments[1][k].dependencies
                dependencies == result[1].versions[arguments[1][k].version].dependencies
            IN /\ DOMAIN dependencies = DependencyNames(ds)
               /\ \A n \in DependencyNames(ds) :
                     dependencies[n] = ds[LastDependency(ds, n)].versionRange

C19_Witness ==
    /\ Merged
    /\ Len(arguments[1]) = 2
    /\ arguments[1][1].dependencies =
          <<[packageName |-> "dep", versionRange |-> "^1.0.0"],
            [packageName |-> "dep", versionRange |-> "^2.0.0"]>>
    /\ arguments[1][2].dependencies =
          <<[packageName |-> Null, versionRange |-> "^1.0.0"],
            [packageName |-> "dep", versionRange |-> Null]>>
    /\ result[1].versions[arguments[1][1].version].dependencies["dep"] = "^2.0.0"

\* C20: after any sequence of runs the collection `packages` holds at most one document
\* per package name, a stored document that does not deserialise included.
C20_OneRecordPerName ==
    \A n \in Names(packages) :
        Cardinality({i \in 1..Len(packages) : packages[i].name = n}) <= 1

\* the feed or the registry fetch of the current package ends with a NetworkError
FetchFails ==
    /\ pc \in {"feed", "registry"}
    /\ ScraperStep
    /\ package_versions'.error \in NetworkError

\* C21: a package whose feed or registry fetch ends with a NetworkError (skipped, or the
\* run aborted) leaves the store as it was when the package was classified: the document
\* found then is still the one found by its name; a delete or an insert is done only
\* after both fetches returned a non-empty result.
C21_FailedFetchKeepsStore ==
    [][/\ FetchFails =>
             /\ pc' \in {"classify", "idle"}
             /\ ops = << >>
             /\ ops' = << >>
             /\ packages' = packages
             /\ find_one(packages', package_name) = old_package
       /\ ops' # ops /\ ops' # << >> =>
             /\ package_versions.error = "none"
             /\ DOMAIN package_versions.versions # {}
             /\ feed_ids # None
             /\ registry_ids # None]_vars

C21_Witness ==
    /\ pc = "classify"
    /\ idx > 1
    /\ package_versions.error \in NetworkError
    /\ feed_ids # None
    /\ mongo_package_status = OUT_OF_DATE
    /\ old_package # None
    /\ find_one(packages, devops_package_list[idx - 1].name) = old_package

\* C22: with an upstream that does not change, the run that follows a completed run does
\* no feed fetch, no registry fetch, no delete and no insert for a package the completed
\* run inserted.
C22_SecondRunIdle ==
    [][/\ PcRank(pc) > 0
       /\ ScraperStep
       /\ package_name \in result[1].previous
       => /\ fetched' = fetched
          /\ packages' = packages
          /\ ops' = << >>]_vars

====
